---- MODULE Spec2Model ----
(***************************************************************************)
(* Model of src/business_chatbot.py: the Streamlit chat session (message   *)
(* log in st.session_state.messages, chat input handler, gateway call,     *)
(* Clear Chat History button) and create_visualization, the function that  *)
(* extracts a JSON chart payload from assistant text and draws it.         *)
(*                                                                         *)
(* Text is a sequence of lexemes [k, v]: the punctuation of JSON, string   *)
(* and number literals, the literals true/false/null, whitespace and prose *)
(* words.  A brace character occurs only as a brace lexeme, so find('{')   *)
(* and rfind('}') on characters are first/last occurrence on lexemes.      *)
(***************************************************************************)
EXTENDS Integers, Sequences, FiniteSets, TLC

VARIABLES
    messages,   \* st.session_state.messages: sequence of [role, content]
    state,      \* position of the script: "Idle" | "AwaitingCompletion"
    api_key,    \* value of the sidebar text input (empty = not entered)
    theme,      \* value of the "Choose Theme" selectbox
    prompt,     \* value of the chat input in the last script run
    response,   \* outcome of the last requests.post of the chat handler
    shown,      \* output of the history display loop of the last script run
    live,       \* output of the chat input handler of the last script run
    last,       \* which handler ran last
    prev,       \* the message log before the last handler ran
    text,       \* argument of a direct create_visualization call
    result      \* outcome of that call

vars == <<messages, state, api_key, theme, prompt, response, shown, live, last,
          prev, text, result>>

(***************************************************************************)
(* Bounds of the model.                                                    *)
(***************************************************************************)
MaxMessages == 4     \* messages after the system preamble
MaxBraceText == 4    \* length of the exhaustively enumerated brace texts

(***************************************************************************)
(* Lexemes.                                                                *)
(***************************************************************************)
Lex(k, v) == [k |-> k, v |-> v]
LB == Lex("{", "")
RB == Lex("}", "")
LS == Lex("[", "")
RS == Lex("]", "")
CL == Lex(":", "")
CM == Lex(",", "")
WS == Lex("ws", " ")
S(x) == Lex("str", x)
N(x) == Lex("num", x)
L(x) == Lex("lit", x)
Wd(x) == Lex("word", x)

(***************************************************************************)
(* str.find / str.rfind (0-based, -1 when absent) and slicing.             *)
(***************************************************************************)
find(t, k) ==
    IF \E i \in 1..Len(t) : t[i].k = k
    THEN (CHOOSE i \in 1..Len(t) :
              t[i].k = k /\ \A j \in 1..(i - 1) : t[j].k # k) - 1
    ELSE -1

rfind(t, k) ==
    IF \E i \in 1..Len(t) : t[i].k = k
    THEN (CHOOSE i \in 1..Len(t) :
              t[i].k = k /\ \A j \in (i + 1)..Len(t) : t[j].k # k) - 1
    ELSE -1

\* text[start:end] with 0 <= start < end <= len(text)
Slice(t, start, end) == SubSeq(t, start + 1, end)

(***************************************************************************)
(* json.loads on a lexeme sequence.  Decoded values are records            *)
(* [t, s, keys, items]: t is "obj", "arr", "str", "num" or "lit".          *)
(***************************************************************************)
Scalar(t, s) == [t |-> t, s |-> s, keys |-> <<>>, items |-> <<>>]
Arr(items) == [t |-> "arr", s |-> "", keys |-> <<>>, items |-> items]
Obj(keys, items) == [t |-> "obj", s |-> "", keys |-> keys, items |-> items]
EmptyDict == Obj(<<>>, <<>>)

DecodeFail == [ok |-> FALSE, val |-> Scalar("lit", "null"), pos |-> 0]
Decoded(v, p) == [ok |-> TRUE, val |-> v, pos |-> p]

IsKind(t, i, k) == i <= Len(t) /\ t[i].k = k

RECURSIVE ParseValue(_, _), ParseMembers(_, _, _, _), ParseElements(_, _, _)

ParseValue(t, i) ==
    IF i > Len(t) THEN DecodeFail
    ELSE IF t[i].k \in {"str", "num", "lit"}
         THEN Decoded(Scalar(t[i].k, t[i].v), i + 1)
    ELSE IF t[i].k = "{"
         THEN IF IsKind(t, i + 1, "}") THEN Decoded(EmptyDict, i + 2)
              ELSE ParseMembers(t, i + 1, <<>>, <<>>)
    ELSE IF t[i].k = "["
         THEN IF IsKind(t, i + 1, "]") THEN Decoded(Arr(<<>>), i + 2)
              ELSE ParseElements(t, i + 1, <<>>)
    ELSE DecodeFail

\* at position i a member "key": value is expected.  (The value r of the
\* nested call is bound by a set constructor, which evaluates it once.)
ParseMembers(t, i, keys, items) ==
    IF ~(IsKind(t, i, "str") /\ IsKind(t, i + 1, ":")) THEN DecodeFail
    ELSE CHOOSE y \in
           { IF ~r.ok THEN DecodeFail
             ELSE IF IsKind(t, r.pos, ",")
                  THEN ParseMembers(t, r.pos + 1, Append(keys, t[i].v),
                                    Append(items, r.val))
             ELSE IF IsKind(t, r.pos, "}")
                  THEN Decoded(Obj(Append(keys, t[i].v), Append(items, r.val)),
                               r.pos + 1)
             ELSE DecodeFail
             : r \in {ParseValue(t, i + 2)} } : TRUE

\* at position i an array element is expected
ParseElements(t, i, items) ==
    CHOOSE y \in
      { IF ~r.ok THEN DecodeFail
        ELSE IF IsKind(t, r.pos, ",")
             THEN ParseElements(t, r.pos + 1, Append(items, r.val))
        ELSE IF IsKind(t, r.pos, "]")
             THEN Decoded(Arr(Append(items, r.val)), r.pos + 1)
        ELSE DecodeFail
        : r \in {ParseValue(t, i)} } : TRUE

NotWs(x) == x.k # "ws"

\* json.loads(json_str): whitespace between lexemes is skipped, the whole
\* string must be one value (anything left over is "Extra data")
json_loads(js) ==
    CHOOSE y \in
      { IF r.ok /\ r.pos = Len(js) - Cardinality({i \in 1..Len(js) : js[i].k = "ws"}) + 1
        THEN r ELSE DecodeFail
        : r \in {ParseValue(SelectSeq(js, NotWs), 1)} } : TRUE

(***************************************************************************)
(* Python operations on decoded values used by create_visualization.       *)
(***************************************************************************)
HasKey(d, key) == \E i \in 1..Len(d.keys) : d.keys[i] = key

\* d[key]: a key given twice keeps its last value
Lookup(d, key) ==
    d.items[CHOOSE i \in 1..Len(d.keys) :
                d.keys[i] = key /\ \A j \in (i + 1)..Len(d.keys) : d.keys[j] # key]

\* dict.get(key, default); the decoded span starts with "{", so d is a dict
Get(d, key, default) == IF HasKey(d, key) THEN Lookup(d, key) ELSE default

\* the strings of the model in which `key` occurs as a substring
Containing(key) == {key, "labels values"}

\* `key in v` raises TypeError when v is a number, a boolean or None
InRaises(v) == v.t \in {"num", "lit"}

\* `key in v` for a dict (key lookup), a list (element) or a str (substring)
In(key, v) ==
    CASE v.t = "obj" -> HasKey(v, key)
      [] v.t = "arr" -> \E i \in 1..Len(v.items) :
                            v.items[i].t = "str" /\ v.items[i].s = key
      [] v.t = "str" -> v.s \in Containing(key)
      [] OTHER -> FALSE

\* pd.DataFrame({'Category': a, 'Amount': b}) raises ValueError: arrays of
\* different lengths, only scalars, or a dict mixed with a list.  A scalar
\* beside a list or dict is broadcast.  The element types are not inspected.
DataFrameRaises(a, b) ==
    \/ a.t = "arr" /\ b.t = "arr" /\ Len(a.items) # Len(b.items)
    \/ a.t \notin {"arr", "obj"} /\ b.t \notin {"arr", "obj"}
    \/ a.t = "obj" /\ b.t = "arr"
    \/ a.t = "arr" /\ b.t = "obj"

\* str(v) inside an f-string; for a container its kind stands for its repr
Show(v) == IF v.t \in {"str", "num", "lit"} THEN v.s ELSE v.t

(***************************************************************************)
(* Page elements written by st.markdown, st.subheader, st.plotly_chart,    *)
(* st.error and st.info.                                                   *)
(***************************************************************************)
W(w, a, b) == [w |-> w, a |-> a, b |-> b]

VizError == W("error", "Error creating visualization", "")

IsStr(v, s) == v.t = "str" /\ v.s = s

Shape(chart_type) ==
    IF IsStr(chart_type, "pie") THEN "pie"
    ELSE IF IsStr(chart_type, "line") THEN "line"
    ELSE "bar"

Template(thm) == IF thm = "Night Mode" THEN "plotly_dark" ELSE "plotly_white"

\* outcomes of create_visualization: the return value, what it wrote to the
\* page, and st.session_state.messages as the call leaves it
Outcome(ret, out, msgs) == [ret |-> ret, out |-> out, messages |-> msgs]

\* Draw with labels and values defaulting to empty lists when absent
DrawWithDefaults(d, thm, msgs) ==
    IF ~d.ok THEN Outcome(FALSE, <<VizError>>, msgs)
    ELSE
    LET data       == d.val
        chart_type == Get(data, "chart_type", Scalar("str", "bar"))
        title      == Get(data, "title", Scalar("str", "Financial Analysis"))
        chart_data == Get(data, "data", EmptyDict)
    IN
    IF chart_data.t # "obj" THEN Outcome(FALSE, <<VizError>>, msgs)
    ELSE IF DataFrameRaises(Get(chart_data, "labels", Arr(<<>>)),
                            Get(chart_data, "values", Arr(<<>>)))
         THEN Outcome(FALSE, <<VizError>>, msgs)
    ELSE Outcome(TRUE,
                 << W("subheader", Show(title), ""),
                    W("plotly_chart", Shape(chart_type), Template(thm)) >>,
                 msgs)

\* Draw with the exception handler swallowing every error
DrawSilently(d, thm, msgs) ==
    IF ~d.ok THEN Outcome(FALSE, <<>>, msgs)
    ELSE
    LET data       == d.val
        chart_type == Get(data, "chart_type", Scalar("str", "bar"))
        title      == Get(data, "title", Scalar("str", "Financial Analysis"))
        chart_data == Get(data, "data", EmptyDict)
    IN
    IF InRaises(chart_data) THEN Outcome(FALSE, <<>>, msgs)
    ELSE IF In("labels", chart_data) /\ In("values", chart_data)
    THEN IF chart_data.t # "obj" THEN Outcome(FALSE, <<>>, msgs)
         ELSE IF DataFrameRaises(Lookup(chart_data, "labels"),
                                 Lookup(chart_data, "values"))
              THEN Outcome(FALSE, <<>>, msgs)
         ELSE Outcome(TRUE,
                      << W("subheader", Show(title), ""),
                         W("plotly_chart", Shape(chart_type), Template(thm)) >>,
                      msgs)
    ELSE Outcome(FALSE, <<>>, msgs)

\* the body of the `if start != -1 and end > start` branch once json.loads
\* has returned d
Draw(d, thm, msgs) ==
    IF ~d.ok THEN Outcome(FALSE, <<VizError>>, msgs)
    ELSE
    LET data       == d.val
        chart_type == Get(data, "chart_type", Scalar("str", "bar"))
        title      == Get(data, "title", Scalar("str", "Financial Analysis"))
        chart_data == Get(data, "data", EmptyDict)
    IN
    IF InRaises(chart_data) THEN Outcome(FALSE, <<VizError>>, msgs)
    ELSE IF In("labels", chart_data) /\ In("values", chart_data)
    THEN \* chart_data['labels'] on a list or str raises TypeError
         IF chart_data.t # "obj" THEN Outcome(FALSE, <<VizError>>, msgs)
         ELSE IF DataFrameRaises(Lookup(chart_data, "labels"),
                                 Lookup(chart_data, "values"))
              THEN Outcome(FALSE, <<VizError>>, msgs)
         ELSE Outcome(TRUE,
                      << W("subheader", Show(title), ""),
                         W("plotly_chart", Shape(chart_type), Template(thm)) >>,
                      msgs)
    ELSE Outcome(FALSE, <<>>, msgs)

\* create_visualization keeping what it drew from in the message log
create_visualization_recording(txt, thm, msgs) ==
    LET start == find(txt, "{")
        end   == rfind(txt, "}") + 1
    IN
    IF start # -1 /\ end > start
    THEN CHOOSE y \in { Draw(d, thm, Append(msgs, [role |-> "chart", content |-> txt])) :
                        d \in {json_loads(Slice(txt, start, end))} } : TRUE
    ELSE Outcome(FALSE, <<>>, msgs)

create_visualization(txt, thm, msgs) ==
    LET start == find(txt, "{")
        end   == rfind(txt, "}") + 1
    IN
    IF start # -1 /\ end > start
    THEN CHOOSE y \in { Draw(d, thm, msgs) :
                        d \in {json_loads(Slice(txt, start, end))} } : TRUE
    ELSE Outcome(FALSE, <<>>, msgs)

(***************************************************************************)
(* Texts.                                                                  *)
(***************************************************************************)
RECURSIVE Commas(_)
Commas(xs) ==
    IF Len(xs) <= 1 THEN xs ELSE <<Head(xs), CM>> \o Commas(Tail(xs))

List(xs) == <<LS>> \o Commas(xs) \o <<RS>>

DataObj(labels, values) ==
    <<LB, S("labels"), CL>> \o List(labels) \o <<CM, S("values"), CL>>
        \o List(values) \o <<RB>>

Payload(ct, title, labels, values) ==
    <<LB, S("chart_type"), CL, S(ct), CM, S("title"), CL, S(title), CM,
      S("data"), CL>> \o DataObj(labels, values) \o <<RB>>

T_plain == <<Wd("Track"), WS, Wd("your"), WS, Wd("spending.")>>
T_pie ==
    <<Wd("Here:"), WS>> \o Payload("pie", "T", <<S("A"), S("B")>>, <<N("1"), N("2")>>)
        \o <<WS, Wd("Consult"), WS, Wd("an"), WS, Wd("advisor.")>>
T_line == Payload("line", "Income", <<S("Jan"), S("Feb")>>, <<N("3000"), N("3500")>>)
T_default == <<LB, WS, S("data"), CL, WS>> \o DataObj(<<S("A")>>, <<N("1")>>) \o <<WS, RB>>
T_unknown_type == Payload("donut", "T", <<S("A")>>, <<N("1")>>)
T_title_only == <<Wd("See"), WS, LB, S("title"), CL, S("T"), RB>>
T_labels_only == <<LB, S("data"), CL, LB, S("labels"), CL, LS, S("A"), RS, RB, RB>>
T_curly == <<Wd("Use"), WS, LB, Wd("rent"), RB, WS, Wd("as"), WS, Wd("a"), WS, Wd("label.")>>
T_reversed == <<Wd("a"), RB, WS, LB, Wd("b")>>
T_two == T_default \o <<WS, Wd("and"), WS>> \o T_line
T_strvalues == Payload("bar", "T", <<S("A"), S("B")>>, <<S("abc"), S("def")>>)
T_mixedvalues == Payload("pie", "T", <<S("A"), S("B")>>, <<N("1"), S("abc")>>)
T_nullvalue == Payload("line", "T", <<S("A")>>, <<L("null")>>)
T_mismatch == Payload("bar", "T", <<S("A"), S("B")>>, <<N("1")>>)
T_scalars == <<LB, S("data"), CL, LB, S("labels"), CL, S("A"), CM, S("values"), CL, N("1"), RB, RB>>
T_data_list == <<LB, S("data"), CL>> \o List(<<S("labels"), S("values")>>) \o <<RB>>
T_data_str == <<LB, S("data"), CL, S("labels values"), RB>>
T_data_null == <<LB, S("data"), CL, L("null"), RB>>
T_data_num == <<LB, S("title"), CL, S("T"), CM, S("data"), CL, N("7"), RB>>
T_dupkey == <<LB, S("data"), CL, N("7"), CM, S("data"), CL>>
                \o DataObj(<<S("A")>>, <<N("1")>>) \o <<RB>>
T_trailing_comma == <<LB, S("title"), CL, S("T"), CM, RB>>
T_empty_obj == <<LB, RB>>

Corpus ==
    { T_plain, T_pie, T_line, T_default, T_unknown_type, T_title_only,
      T_labels_only, T_curly, T_reversed, T_two, T_strvalues, T_mixedvalues,
      T_nullvalue, T_mismatch, T_scalars, T_data_list, T_data_str,
      T_data_null, T_data_num, T_dupkey, T_trailing_comma, T_empty_obj }

\* every text of at most MaxBraceText lexemes over "{", "}" and a word
BraceAlphabet == {LB, RB, Wd("x")}
BraceTexts == UNION {[1..n -> BraceAlphabet] : n \in 0..MaxBraceText}

ParseInputs == Corpus \cup BraceTexts

(***************************************************************************)
(* The session.                                                            *)
(***************************************************************************)
Msg(role, content) == [role |-> role, content |-> content]

\* the system message appended when the log is created; its content shows
\* the JSON format the model is asked to answer in
SystemPreamble ==
    Msg("system",
        <<Wd("You are a helpful financial assistant."), WS, Wd("Format:"), WS,
          LB, S("chart_type"), CL, WS, S("pie|bar|line"), CM, WS,
          S("title"), CL, WS, S("Chart Title"), CM, WS,
          S("data"), CL, WS, LB, S("labels"), CL, WS, LS, RS, CM, WS,
          S("values"), CL, WS, LS, RS, RB, RB>>)

\* values of the chat input: nothing typed, a blank, and a question
P_empty == <<>>
P_blank == <<WS>>
P_ask == <<Wd("rent"), WS, N("500")>>
Prompts == {P_empty, P_blank, P_ask}

\* the chat input's value in a script run: None unless it was submitted
None == <<>>
Some(p) == <<p>>

\* contents the gateway answers with
Replies == {T_plain, T_pie, T_curly, T_strvalues, T_title_only}

Themes == {"Day Mode", "Night Mode"}
ApiKeys == {"", "gsk"}

\* what requests.post produced: a transport failure, or a status with a body
\* that is not JSON, a JSON object without "choices", or a completion
NoResponse == [kind |-> "none", status |-> 0, body |-> ""]
Transport == [kind |-> "transport", status |-> 0, body |-> ""]
Http(status, body) == [kind |-> "http", status |-> status, body |-> body]
Statuses == {200, 401}
Bodies == {"not_json", "error_dict", "completion"}
Responses == {Transport} \cup {Http(st, b) : st \in Statuses, b \in Bodies}

\* the history display loop: every message but the first is written to the
\* page and create_visualization is called on the assistant ones
RECURSIVE DisplayHistory(_, _, _, _)
DisplayHistory(items, thm, msgs, acc) ==
    IF items = <<>> THEN [shown |-> acc, messages |-> msgs]
    ELSE LET m == Head(items) IN
         IF m.role = "assistant"
         THEN LET r == create_visualization(m.content, thm, msgs) IN
              DisplayHistory(Tail(items), thm, r.messages,
                             Append(acc, [role |-> m.role, out |-> r.out]))
         ELSE DisplayHistory(Tail(items), thm, msgs,
                             Append(acc, [role |-> m.role, out |-> <<>>]))

\* a script run up to the chat input: st.stop() without a key, else the
\* log is displayed
RunToInput(key, thm, msgs) ==
    IF key = "" THEN [stopped |-> TRUE, shown |-> <<>>, messages |-> msgs]
    ELSE LET d == DisplayHistory(Tail(msgs), thm, msgs, <<>>) IN
         [stopped |-> FALSE, shown |-> d.shown, messages |-> d.messages]

KeyInfo == <<W("info", "Please enter your Groq API key", "")>>

Init ==
    /\ messages = <<SystemPreamble>>
    /\ state = "Idle"
    /\ api_key = "gsk"
    /\ theme = "Day Mode"
    /\ prompt = None
    /\ response = NoResponse
    /\ shown = <<>>
    /\ live = <<>>
    /\ last = "init"
    /\ prev = <<SystemPreamble>>
    /\ text = <<>>
    /\ result = <<>>

\* the theme selectbox changes and the script reruns
ChooseTheme(t) ==
    /\ state = "Idle"
    /\ t # theme
    /\ theme' = t
    /\ LET run == RunToInput(api_key, t, messages) IN
       /\ messages' = run.messages
       /\ shown' = run.shown
       /\ live' = IF run.stopped THEN KeyInfo ELSE <<>>
    /\ prompt' = None
    /\ response' = NoResponse
    /\ last' = "theme"
    /\ prev' = messages
    /\ UNCHANGED <<state, api_key, text, result>>

\* the sidebar key input changes and the script reruns
EnterApiKey(k) ==
    /\ state = "Idle"
    /\ k # api_key
    /\ api_key' = k
    /\ LET run == RunToInput(k, theme, messages) IN
       /\ messages' = run.messages
       /\ shown' = run.shown
       /\ live' = IF run.stopped THEN KeyInfo ELSE <<>>
    /\ prompt' = None
    /\ response' = NoResponse
    /\ last' = "api_key"
    /\ prev' = messages
    /\ UNCHANGED <<state, theme, text, result>>

\* ChatInput appending only a prompt with something but whitespace in it,
\* and calling the gateway all the same
ChatInputSkippingBlank(p) ==
    /\ state = "Idle"
    /\ api_key # ""
    /\ Len(messages) + 1 <= MaxMessages
    /\ LET run == RunToInput(api_key, theme, messages) IN
       /\ shown' = run.shown
       /\ IF Len(p) > 0
          THEN /\ messages' = IF \E i \in 1..Len(p) : p[i].k # "ws"
                              THEN Append(run.messages, Msg("user", p))
                              ELSE run.messages
               /\ live' = <<W("markdown", "user", "")>>
               /\ state' = "AwaitingCompletion"
          ELSE /\ messages' = run.messages
               /\ live' = <<>>
               /\ state' = "Idle"
    /\ prompt' = Some(p)
    /\ response' = NoResponse
    /\ last' = "chat_input"
    /\ prev' = messages
    /\ UNCHANGED <<api_key, theme, text, result>>

\* the chat input is submitted with value p; the handler runs up to
\* requests.post
ChatInput(p) ==
    /\ state = "Idle"
    /\ api_key # ""
    /\ Len(messages) + 1 <= MaxMessages
    /\ LET run == RunToInput(api_key, theme, messages) IN
       /\ shown' = run.shown
       /\ IF Len(p) > 0
          THEN /\ messages' = Append(run.messages, Msg("user", p))
               /\ live' = <<W("markdown", "user", "")>>
               /\ state' = "AwaitingCompletion"
          ELSE /\ messages' = run.messages
               /\ live' = <<>>
               /\ state' = "Idle"
    /\ prompt' = Some(p)
    /\ response' = NoResponse
    /\ last' = "chat_input"
    /\ prev' = messages
    /\ UNCHANGED <<api_key, theme, text, result>>

\* Completes looking at the status alone
CompletesOnStatus(resp) == resp.kind = "http" /\ resp.status = 200

\* whether the handler reaches the assistant branch with this response
Completes(resp) == resp.kind = "http" /\ resp.status = 200 /\ resp.body = "completion"

\* whether an exception is raised: by requests.post, by response.json(), or
\* by response_data['choices'] under status 200
Raises(resp) ==
    \/ resp.kind = "transport"
    \/ resp.body = "not_json"
    \/ resp.status = 200 /\ resp.body # "completion"

GatewayError(resp) ==
    IF Raises(resp) THEN W("error", "Error: exception", "")
    ELSE W("error", "Error: status", resp.body)

\* GatewayResponds taking the user's message back when the call failed
GatewayRespondsRollingBack(resp, reply) ==
    /\ state = "AwaitingCompletion"
    /\ response' = resp
    /\ IF Completes(resp)
       THEN LET r == create_visualization(reply, theme, messages) IN
            /\ messages' = Append(r.messages, Msg("assistant", reply))
            /\ live' = live \o <<W("markdown", "assistant", "")>> \o r.out
       ELSE /\ messages' = SubSeq(messages, 1, Len(messages) - 1)
            /\ live' = Append(live, GatewayError(resp))
    /\ state' = "Idle"
    /\ last' = "response"
    /\ prev' = messages
    /\ UNCHANGED <<api_key, theme, prompt, shown, text, result>>

\* requests.post returns (or raises) and the handler runs to its end
GatewayResponds(resp, reply) ==
    /\ state = "AwaitingCompletion"
    /\ response' = resp
    /\ IF Completes(resp)
       THEN LET r == create_visualization(reply, theme, messages) IN
            /\ messages' = Append(r.messages, Msg("assistant", reply))
            /\ live' = live \o <<W("markdown", "assistant", "")>> \o r.out
       ELSE /\ messages' = messages
            /\ live' = Append(live, GatewayError(resp))
    /\ state' = "Idle"
    /\ last' = "response"
    /\ prev' = messages
    /\ UNCHANGED <<api_key, theme, prompt, shown, text, result>>

\* ClearChatHistory keeping the last message instead of the first
ClearKeepsLastMessage ==
    /\ api_key # ""
    /\ LET run == RunToInput(api_key, theme, messages)
           kept == <<run.messages[Len(run.messages)]>>
           rerun == RunToInput(api_key, theme, kept)
       IN /\ messages' = rerun.messages
          /\ shown' = rerun.shown
    /\ live' = <<>>
    /\ state' = "Idle"
    /\ prompt' = None
    /\ response' = NoResponse
    /\ last' = "clear"
    /\ prev' = messages
    /\ UNCHANGED <<api_key, theme, text, result>>

\* ClearChatHistory emptying the log
ClearEmptiesLog ==
    /\ api_key # ""
    /\ messages' = <<>>
    /\ shown' = <<>>
    /\ live' = <<>>
    /\ state' = "Idle"
    /\ prompt' = None
    /\ response' = NoResponse
    /\ last' = "clear"
    /\ prev' = messages
    /\ UNCHANGED <<api_key, theme, text, result>>

\* the Clear Chat History button: the log is cut to its first element and
\* st.rerun() displays the now empty history; a request in flight is dropped
ClearChatHistory ==
    /\ api_key # ""
    /\ LET run == RunToInput(api_key, theme, messages)
           kept == <<run.messages[1]>>
           rerun == RunToInput(api_key, theme, kept)
       IN /\ messages' = rerun.messages
          /\ shown' = rerun.shown
    /\ live' = <<>>
    /\ state' = "Idle"
    /\ prompt' = None
    /\ response' = NoResponse
    /\ last' = "clear"
    /\ prev' = messages
    /\ UNCHANGED <<api_key, theme, text, result>>

Next ==
    \/ \E t \in Themes : ChooseTheme(t)
    \/ \E k \in ApiKeys : EnterApiKey(k)
    \/ \E p \in Prompts : ChatInput(p)
    \/ \E resp \in Responses, reply \in Replies : GatewayResponds(resp, reply)
    \/ ClearChatHistory

Spec == Init /\ [][Next]_vars

(***************************************************************************)
(* create_visualization on its own, over the corpus and every short text   *)
(* of braces and words.                                                    *)
(***************************************************************************)
InitParse ==
    /\ messages = <<SystemPreamble>>
    /\ state = "Idle"
    /\ api_key = "gsk"
    /\ theme \in Themes
    /\ prompt = None
    /\ response = NoResponse
    /\ shown = <<>>
    /\ live = <<>>
    /\ last = "init"
    /\ prev = <<SystemPreamble>>
    /\ text \in ParseInputs
    /\ result = <<>>

Call ==
    /\ result = <<>>
    /\ LET r == create_visualization(text, theme, messages) IN
       /\ result' = <<[ret |-> r.ret, out |-> r.out]>>
       /\ messages' = r.messages
    /\ last' = "call"
    /\ prev' = messages
    /\ UNCHANGED <<state, api_key, theme, prompt, response, shown, live, text>>

NextParse == Call

SpecParse == InitParse /\ [][NextParse]_vars

(***************************************************************************)
(* Properties.                                                             *)
(***************************************************************************)
IsPrefix(a, b) == Len(a) <= Len(b) /\ SubSeq(b, 1, Len(a)) = a

LastOf(q) == q[Len(q)]

HasError(out) == \E i \in 1..Len(out) : out[i].w = "error"
HasChart(out) == \E i \in 1..Len(out) : out[i].w = "plotly_chart"

\* empty, or nothing but whitespace
IsBlank(p) == \A i \in 1..Len(p) : p[i].k = "ws"

\* the gateway call failed: transport failure, a status other than 200, or
\* a body without choices[0].message.content
CallFailed(resp) ==
    \/ resp.kind = "transport"
    \/ resp.kind = "http" /\ resp.status # 200
    \/ resp.kind = "http" /\ resp.body # "completion"

\* C1: when the gateway call of a turn fails, the turn ends Idle with an
\* error on the page, the log is the one the call was made with, its last
\* element is the user's message of the turn, and no assistant message was
\* appended.
GatewayFailureKeepsUserMessage ==
    (last = "response" /\ CallFailed(response)) =>
        /\ state = "Idle"
        /\ HasError(live)
        /\ messages = prev
        /\ LastOf(messages) = Msg("user", prompt[1])

GatewayFailureReached ==
    /\ last = "response"
    /\ response = Http(401, "error_dict")
    /\ Len(messages) >= 4
    /\ LastOf(messages).role = "user"
    /\ HasError(live)

\* C2 (as claimed): a submitted text that is empty or only whitespace is
\* rejected: the log is unchanged, no gateway call is started, the session
\* stays Idle.
BlankInputRejected ==
    (last = "chat_input" /\ IsBlank(prompt[1])) =>
        /\ messages = prev
        /\ state = "Idle"

\* C3: after Clear Chat History the log is exactly the system preamble, so
\* the displayed history is empty, whatever the log held before.
ClearLeavesOnlyPreamble ==
    last = "clear" =>
        /\ messages = <<SystemPreamble>>
        /\ Tail(messages) = <<>>
        /\ shown = <<>>
        /\ state = "Idle"

ClearAfterTurnsReached ==
    /\ last = "clear"
    /\ Len(prev) >= 4
    /\ \E i \in 1..Len(prev) : prev[i].role = "assistant"
    /\ messages = <<SystemPreamble>>

\* C4: the log is never empty, its first element is the system preamble of
\* the session start, and no other element has role system.
PreambleIsElementZero ==
    /\ Len(messages) >= 1
    /\ messages[1] = SystemPreamble
    /\ \A i \in 2..Len(messages) : messages[i].role \in {"user", "assistant"}

PreambleUnderFullLogReached ==
    /\ Len(messages) = MaxMessages + 1
    /\ messages[1] = SystemPreamble
    /\ LastOf(messages).role = "assistant"
    /\ \E i \in 2..Len(messages) - 1 :
           messages[i].role = "user" /\ messages[i + 1].role = "user"

\* C5: create_visualization leaves the log as it was: a script run that
\* only displays the history does not change it, and a completed turn adds
\* the assistant's message to the log the call was made with and nothing
\* else, whether the call drew a chart, found nothing or reported an error.
RenderLeavesLogUnchanged ==
    /\ last \in {"theme", "api_key"} => messages = prev
    /\ (last = "chat_input" /\ Len(prompt[1]) = 0) => messages = prev
    /\ (last = "response" /\ ~CallFailed(response)) =>
           /\ Len(messages) = Len(prev) + 1
           /\ SubSeq(messages, 1, Len(prev)) = prev
           /\ LastOf(messages).role = "assistant"

RenderedChartAndErrorReached ==
    /\ last = "theme"
    /\ Len(messages) >= 5
    /\ \E i \in 1..Len(shown) : HasChart(shown[i].out)
    /\ \E i \in 1..Len(shown) : HasError(shown[i].out)
    /\ messages = prev

(***************************************************************************)
(* The payload of a text, stated without find and rfind.                   *)
(***************************************************************************)
Braces(t, k) == {i \in 1..Len(t) : t[i].k = k}

\* a "{" with a "}" somewhere after it
HasBracePair(t) == \E i \in Braces(t, "{") : \E j \in Braces(t, "}") : i < j

FirstOpen(t) == CHOOSE i \in Braces(t, "{") : \A j \in Braces(t, "{") : i <= j
LastClose(t) == CHOOSE i \in Braces(t, "}") : \A j \in Braces(t, "}") : j <= i

\* the decoding of the span from the first "{" to the last "}"
SpanDecoded(t) == json_loads(SubSeq(t, FirstOpen(t), LastClose(t)))

\* the decoded object has a "data" object holding both "labels" and "values"
HasLabelledData(v) ==
    /\ v.t = "obj"
    /\ HasKey(v, "data")
    /\ Lookup(v, "data").t = "obj"
    /\ HasKey(Lookup(v, "data"), "labels")
    /\ HasKey(Lookup(v, "data"), "values")

Called == result # <<>>

\* C6: create_visualization returns True, and draws a chart, only if the
\* text has a "{" followed later by a "}" and the object decoded from the
\* first-"{"-to-last-"}" span has a data object with both labels and values;
\* without a brace pair, and for {"title":"T"}, it returns False, draws
\* nothing and reports nothing.
ChartOnlyFromLabelledPayload ==
    Called =>
        /\ result[1].ret = HasChart(result[1].out)
        /\ result[1].ret =>
               /\ HasBracePair(text)
               /\ SpanDecoded(text).ok
               /\ HasLabelledData(SpanDecoded(text).val)
        /\ ~HasBracePair(text) => (~result[1].ret /\ result[1].out = <<>>)
        /\ text = T_title_only => (~result[1].ret /\ result[1].out = <<>>)

ChartFromPayloadReached ==
    /\ Called
    /\ text = T_pie
    /\ result[1].ret
    /\ result[1].out = << W("subheader", "T", ""),
                          W("plotly_chart", "pie", Template(theme)) >>

\* labels and values are lists of equal length and some value is no number
NonNumericValues(v) ==
    /\ HasLabelledData(v)
    /\ LET labels == Lookup(Lookup(v, "data"), "labels")
           values == Lookup(Lookup(v, "data"), "values")
       IN /\ labels.t = "arr"
          /\ values.t = "arr"
          /\ Len(labels.items) = Len(values.items)
          /\ \E i \in 1..Len(values.items) : values.items[i].t # "num"

\* C7 (as claimed): a payload whose values hold an entry that is not a
\* number is a decode failure: create_visualization returns False and no
\* chart is drawn.
NonNumericValuesNotFound ==
    (/\ Called
     /\ HasBracePair(text)
     /\ SpanDecoded(text).ok
     /\ NonNumericValues(SpanDecoded(text).val)) =>
        (~result[1].ret /\ ~HasChart(result[1].out))

\* the text holds no valid chart payload: no brace pair, or a span that
\* does not decode
Undecodable(t) == HasBracePair(t) /\ ~SpanDecoded(t).ok
NoValidPayload(t) == ~HasBracePair(t) \/ Undecodable(t)

\* the output of create_visualization for assistant message i of the log,
\* in the display loop of the last run
Redisplayed(i) ==
    /\ i \in 2..Len(messages)
    /\ i - 1 <= Len(shown)
    /\ messages[i].role = "assistant"
    /\ shown[i - 1].role = "assistant"

\* what create_visualization wrote in the turn that just completed
LiveOut == SubSeq(live, 3, Len(live))
TurnCompleted == last = "response" /\ ~CallFailed(response)

\* C8 (as claimed): for assistant text without a valid chart payload the
\* rendering is skipped silently, on the live turn and on every redisplay:
\* no chart and no error on the page.
NoPayloadIsSilent ==
    /\ \A i \in 2..Len(messages) :
           (Redisplayed(i) /\ NoValidPayload(messages[i].content)) =>
               shown[i - 1].out = <<>>
    /\ (TurnCompleted /\ NoValidPayload(LastOf(messages).content)) =>
           LiveOut = <<>>

\* C8 (amended): without a brace pair the rendering is skipped silently;
\* with a span that does not decode no chart is drawn and the error
\* "Error creating visualization" is written for that message, on the live
\* turn and on every redisplay.
NoPayloadSilentOrReported ==
    /\ \A i \in 2..Len(messages) :
           Redisplayed(i) =>
               /\ ~HasBracePair(messages[i].content) => shown[i - 1].out = <<>>
               /\ Undecodable(messages[i].content) =>
                      shown[i - 1].out = <<VizError>>
    /\ TurnCompleted =>
           /\ ~HasBracePair(LastOf(messages).content) => LiveOut = <<>>
           /\ Undecodable(LastOf(messages).content) => LiveOut = <<VizError>>

UndecodableRedisplayedReached ==
    /\ last = "theme"
    /\ Len(messages) = 5
    /\ messages[3].content = T_curly
    /\ shown[2].out = <<VizError>>
    /\ messages[5].content = T_plain
    /\ shown[4].out = <<>>

\* C9: the log only grows between clears: every handler but Clear leaves
\* the log it found as a prefix of the new log and adds at most one message
\* per append (the user's, then the assistant's); only Clear shortens it.
AppendOnlyBetweenClears ==
    /\ last # "clear" =>
           /\ IsPrefix(prev, messages)
           /\ Len(messages) <= Len(prev) + 1
    /\ (Len(messages) < Len(prev) \/ ~IsPrefix(prev, messages)) => last = "clear"
    /\ last \in {"theme", "api_key"} => messages = prev
    /\ Len(messages) = Len(prev) + 1 =>
           \/ last = "chat_input" /\ LastOf(messages).role = "user"
           \/ last = "response" /\ LastOf(messages).role = "assistant"

AppendedToLongLogReached ==
    /\ last = "response"
    /\ Len(prev) = MaxMessages
    /\ messages = Append(prev, Msg("assistant", T_pie))
    /\ prev[2].role = "user" /\ prev[3].role = "assistant"

\* C10: every assistant message directly follows a user message, so the
\* log has no assistant message first after the preamble, no two assistant
\* messages in a row, and at most as many assistant as user messages.
AssistantFollowsUser ==
    /\ \A i \in 1..Len(messages) :
           messages[i].role = "assistant" =>
               i > 2 /\ messages[i - 1].role = "user"
    /\ Cardinality({i \in 1..Len(messages) : messages[i].role = "assistant"})
           <= Cardinality({i \in 1..Len(messages) : messages[i].role = "user"})

\* two user messages in a row, after a failed gateway call
TwoUserMessagesInARowReached ==
    /\ \E i \in 2..Len(messages) - 1 :
           messages[i].role = "user" /\ messages[i + 1].role = "user"
    /\ LastOf(messages).role = "assistant"
    /\ last = "response"

====
